---- MODULE Spec2Model ----
(***************************************************************************)
(* Workout tracker bot: the progress ledger kept in Redis                  *)
(* (redis_client.py), the command handlers that drive it (main.py) and the *)
(* score matrix built for the group chart (chart_generator.py).            *)
(*                                                                         *)
(* The Redis server is the shared state.  A bot instance (one Python       *)
(* process) runs its handlers one after the other; every Redis command it  *)
(* issues is one atomic step.  Several bot instances may share one Redis.  *)
(***************************************************************************)
EXTENDS Integers, Sequences, FiniteSets, TLC

(***************************************************************************)
(* Bounds of the model.                                                    *)
(***************************************************************************)
\* bot instances connected to the same Redis
NumProcs == 2
\* Telegram user ids are 1..NumUsers
NumUsers == 2
\* largest number a user sends in "/alias <n>"
MaxAmount == 2
\* commands handled in one behaviour, over all instances
MaxCalls == 3
\* clock values are 1..MaxTime
MaxTime == 2
\* goals of config.EXERCISES, scaled down (300 and 60 in config.py)
PlankGoal == 3
RopeGoal == 2

Procs == 1..NumProcs
Users == 1..NumUsers

None == "None"

(***************************************************************************)
(* Python str(int) and int(str) on decimal strings.  A string is a         *)
(* sequence of one-character strings.                                      *)
(***************************************************************************)
Digits == <<"0", "1", "2", "3", "4", "5", "6", "7", "8", "9">>

DigitChars == {Digits[i] : i \in 1..10}

DigitVal(c) == (CHOOSE i \in 1..10 : Digits[i] = c) - 1

RECURSIVE IntToStr(_)
IntToStr(n) ==
    IF n < 10 THEN <<Digits[n + 1]>>
    ELSE Append(IntToStr(n \div 10), Digits[(n % 10) + 1])

RECURSIVE DigitsToInt(_)
DigitsToInt(s) ==
    IF Len(s) = 0 THEN 0
    ELSE 10 * DigitsToInt(SubSeq(s, 1, Len(s) - 1)) + DigitVal(s[Len(s)])

\* int(s) raises ValueError on a string that is not a decimal number
IsIntStr(s) == Len(s) > 0 /\ \A i \in 1..Len(s) : s[i] \in DigitChars

StrToInt(s) == DigitsToInt(s)

(***************************************************************************)
(* config.EXERCISES: an ordered dict, id -> name, alias, goal.             *)
(***************************************************************************)
EXERCISES ==
    << [id |-> "plank", name |-> "Plank (Seconds)", alias |-> "plk", goal |-> PlankGoal],
       [id |-> "rope", name |-> "Rope Skipping (Mins)", alias |-> "rop", goal |-> RopeGoal] >>

ExIds == {EXERCISES[i].id : i \in 1..Len(EXERCISES)}

CatalogAliases == {EXERCISES[i].alias : i \in 1..Len(EXERCISES)}

\* an exercise of an earlier catalog, no longer in config.EXERCISES
LegacyExId == "situp"

LegacyAlias == "sit"

StoredExIds == ExIds \cup {LegacyExId}

\* order of the display names under Python's string comparison
NameRank(name) ==
    IF name = "Plank (Seconds)" THEN 1
    ELSE IF name = "Rope Skipping (Mins)" THEN 2
    ELSE 3

(***************************************************************************)
(* Redis hashes: a hash is a function from its fields to their values; a   *)
(* key that does not exist is the hash with no fields.                     *)
(***************************************************************************)
EmptyHash == [f \in {} |-> None]

\* HSET key field value [field value ...]
HSet(h, m) ==
    [f \in (DOMAIN h) \cup (DOMAIN m) |-> IF f \in DOMAIN m THEN m[f] ELSE h[f]]

\* HDEL key field
HDel(h, field) == [f \in (DOMAIN h) \ {field} |-> h[f]]

\* HGET key field: <<value>>, or <<>> for nil
HGet(h, field) == IF field \in DOMAIN h THEN <<h[field]>> ELSE <<>>

\* a bug: the field is set to the value (HSET where HINCRBY was meant)
HIncrByResultOverwrites(h, field, value) == value

\* HINCRBY key field value: the new value of the field, an absent field counting as 0
HIncrByResult(h, field, value) ==
    (IF field \in DOMAIN h THEN StrToInt(h[field]) ELSE 0) + value

HIncrBy(h, field, value) ==
    HSet(h, [f \in {field} |-> IntToStr(HIncrByResult(h, field, value))])

\* EXISTS key
Exists(h) == DOMAIN h # {}

VARIABLES
    aliasIdx,      \* hash "exercise:aliases": alias -> exercise id
    exDetails,     \* hashes "exercise:details:<id>": name, goal
    playerRows,    \* hashes "player:<user id>": exercise id -> score
    playersSet,    \* set "players:ids"
    userInfo,      \* hashes "user:info:<user id>": first_name, username, last_update
    now,           \* the clock, int(time.time())
    proc,          \* per bot instance: where it is in the handler it runs, and its locals
    log,           \* the score writes, in the order Redis applied them
    notices,       \* the goal messages sent
    calls,         \* commands handled so far
    accepted,      \* per player and exercise: the sum of the amounts of the record calls made
    seeded,        \* the catalog keys before and after each completed setup_initial_data
    redis_conn,    \* per bot instance: the connection made at import, or None
    returns        \* what the redis_client functions called without a reachable Redis gave back

store == <<aliasIdx, exDetails, playerRows, playersSet, userInfo>>

client == <<redis_conn, returns>>

vars == <<aliasIdx, exDetails, playerRows, playersSet, userInfo, now, proc, log, notices, calls, accepted, seeded, redis_conn, returns>>

(***************************************************************************)
(* redis_client.py                                                         *)
(***************************************************************************)
\* setup_initial_data, line 50-51: only the first exercise's record is looked at
example_ex_id == EXERCISES[1].id

needs_setup(details) == ~Exists(details[example_ex_id])

\* the mapping written by pipe.hset(details_key, mapping={name, goal})
DetailsMapping(i) ==
    [name |-> EXERCISES[i].name, goal |-> IntToStr(EXERCISES[i].goal)]

\* the aliases dict built by the loop: alias -> exercise id
AliasMapping ==
    [a \in CatalogAliases |->
        EXERCISES[CHOOSE i \in 1..Len(EXERCISES) : EXERCISES[i].alias = a].id]

\* a bug: the alias index is written only when the key does not exist yet, and is
\* deleted all the same
SeedAliasesDeleteOnly(idx) ==
    IF DOMAIN idx # {} THEN EmptyHash
    ELSE [a \in CatalogAliases |->
             EXERCISES[CHOOSE i \in 1..Len(EXERCISES) : EXERCISES[i].alias = a].id]

\* the pipeline of lines 54-65 (MULTI/EXEC: applied as one step)
SeedAliases(idx) == HSet(EmptyHash, AliasMapping)

SeedDetails(details) ==
    [e \in DOMAIN details |->
        IF e \in ExIds
        THEN HSet(details[e],
                  DetailsMapping(CHOOSE i \in 1..Len(EXERCISES) : EXERCISES[i].id = e))
        ELSE details[e]]

\* str.lower() on what users type after the "/": the aliases of the model that have
\* capital letters, each with its lower-case form
Capitals == {<<"PLK", "plk">>, <<"Rop", "rop">>, <<"XYZ", "xyz">>}

Lower(s) ==
    IF \E c \in Capitals : c[1] = s THEN (CHOOSE c \in Capitals : c[1] = s)[2] ELSE s

\* a bug: an alias the index does not have is taken for the first exercise
get_exercise_id_from_alias_or_first(idx, alias) ==
    IF Lower(alias) \in DOMAIN idx THEN <<idx[Lower(alias)]>> ELSE <<EXERCISES[1].id>>

\* get_exercise_id_from_alias: HGET exercise:aliases alias.lower(); <<id>>, or <<>> for
\* the None of an alias the index does not have
get_exercise_id_from_alias(idx, alias) == HGet(idx, Lower(alias))

\* get_exercise_details: the hash with its goal made an int (0 when it is not a
\* number); the empty hash stands for the None returned for a missing record
get_exercise_details(h) ==
    IF "goal" \in DOMAIN h
    THEN HSet(h, [f \in {"goal"} |-> IF IsIntStr(h["goal"]) THEN StrToInt(h["goal"]) ELSE 0])
    ELSE h

\* a bug: the entries whose score is 0 are left out ("if int(score)")
get_player_progress_above_zero(row) ==
    [e \in {f \in DOMAIN row : DigitsToInt(row[f]) # 0} |-> DigitsToInt(row[e])]

\* get_player_progress: {ex_id: int(score)}
get_player_progress(row) == [e \in DOMAIN row |-> StrToInt(row[e])]

\* dict.get(key, default) on a dict of ints
DictGet(d, key, default) == IF key \in DOMAIN d THEN d[key] ELSE default

\* a bug: no HDEL, a username stored earlier stays
InfoHDelNothing(info) == info

\* store_user_info, line 108: the HDEL issued when the user has no username
InfoHDel(info) == HDel(info, "username")

\* a bug: the time is never put in the mapping
InfoMappingNamesOnly(first_name, username, update_time) ==
    IF username # None
    THEN [f \in {"first_name", "username"} |-> IF f = "first_name" THEN first_name ELSE username]
    ELSE [f \in {"first_name"} |-> first_name]

\* store_user_info, lines 104-114: the HSET of info_to_store; update_time is <<t>> or <<>>
InfoMapping(first_name, username, update_time) ==
    LET base == [f \in {"first_name"} |-> first_name]
        withName == IF username # None
                    THEN HSet(base, [f \in {"username"} |-> username])
                    ELSE base
    IN  IF update_time # <<>>
        THEN HSet(withName, [f \in {"last_update"} |-> IntToStr(update_time[1])])
        ELSE withName

\* a bug: the time of the update is left out of the mapping (as when store_user_info
\* is called without update_time)
InfoHSetWithoutTime(info, first_name, username, update_time) ==
    [f \in (DOMAIN info) \cup {"first_name"} \cup (IF username # None THEN {"username"} ELSE {}) |->
        IF f = "first_name" THEN first_name
        ELSE IF f = "username" /\ username # None THEN username
        ELSE info[f]]

\* store_user_info, line 114: HSET user:info:<id> with info_to_store
InfoHSet(info, first_name, username, update_time) ==
    HSet(info, InfoMapping(first_name, username, update_time))

\* get_user_display_name_and_time: the name as the pieces of the string
DisplayName(info, user_id) ==
    IF "username" \in DOMAIN info THEN <<"@", info["username"]>>
    ELSE IF "first_name" \in DOMAIN info THEN <<info["first_name"]>>
    ELSE <<"User ">> \o IntToStr(user_id)

\* ... and the last update: <<t>> or <<>>
LastUpdate(info) ==
    IF "last_update" \in DOMAIN info /\ IsIntStr(info["last_update"])
    THEN <<StrToInt(info["last_update"])>>
    ELSE <<>>

\* a bug: the whole row of the player is dropped (DEL player_key) and the entry set
ResetScoreDropsRow(row, exercise_id) ==
    [f \in {exercise_id} |-> IntToStr(0)]

\* a bug: the entry is set only when the player has none yet (HSETNX)
ResetScoreIfAbsent(row, exercise_id) ==
    IF exercise_id \in DOMAIN row THEN row
    ELSE [f \in (DOMAIN row) \cup {exercise_id} |->
             IF f = exercise_id THEN IntToStr(0) ELSE row[f]]

\* a bug: every entry of the player's row is set to 0, not the one exercise
ResetScoreWholeRow(row, exercise_id) ==
    [f \in (DOMAIN row) \cup {exercise_id} |-> IntToStr(0)]

\* a bug: the HSET is left out, the reset only stores the user info
ResetScoreSkipped(row, exercise_id) == row

\* reset_player_exercise, line 155: HSET player_key exercise_id 0
ResetScore(row, exercise_id) == HSet(row, [f \in {exercise_id} |-> IntToStr(0)])

\* a bug: the key is set to the one id (SET where SADD was meant)
SAddReplaces(set, user_id) == {IntToStr(user_id)}

\* SADD players:ids str(user_id)
SAdd(set, user_id) == set \cup {IntToStr(user_id)}

\* a bug: a store that is already seeded is emptied (a reset taken by default)
setup_initial_data_flushes(idx, details) ==
    IF ~Exists(details[EXERCISES[1].id])
    THEN <<[a \in CatalogAliases |->
               EXERCISES[CHOOSE i \in 1..Len(EXERCISES) : EXERCISES[i].alias = a].id],
           [e \in DOMAIN details |->
               IF e \in ExIds
               THEN [name |-> EXERCISES[CHOOSE i \in 1..Len(EXERCISES) : EXERCISES[i].id = e].name,
                     goal |-> IntToStr(EXERCISES[CHOOSE i \in 1..Len(EXERCISES) :
                                                    EXERCISES[i].id = e].goal)]
               ELSE details[e]]>>
    ELSE <<EmptyHash, [e \in DOMAIN details |-> EmptyHash]>>

\* setup_initial_data as a whole, on the catalog keys <<alias index, detail records>>
setup_initial_data(idx, details) ==
    IF needs_setup(details)
    THEN <<SeedAliases(idx), SeedDetails(details)>>
    ELSE <<idx, details>>

(***************************************************************************)
(* The bot instances.  Telegram users and what they type.                  *)
(***************************************************************************)
FirstNames == <<"Ann", "Bob", "Cid", "Dan">>

first_name(u) == FirstNames[u]

Handles == <<"ann", "bob", "cid", "dan">>

\* what follows the "/" of a command: a known alias or an unknown one
InputAliases == CatalogAliases \cup {"xyz"}

\* What the users send, W: the users who write, the usernames each may carry (None:
\* no username), the aliases and numbers they type, and the latest clock value.
\* Any user, with or without a username, typing anything:
Anything ==
    [users |-> Users,
     usernames |-> [u \in Users |-> {None, Handles[u]}],
     aliases |-> InputAliases,
     amounts |-> 0..MaxAmount,
     maxTime |-> MaxTime]

\* Users who keep their profile (user 1 has no username) and type known aliases and
\* positive numbers, within one second
Regulars ==
    [users |-> Users,
     usernames |-> [u \in Users |-> IF u = 1 THEN {None} ELSE {Handles[u]}],
     aliases |-> CatalogAliases,
     amounts |-> 1..MaxAmount,
     maxTime |-> 1]

\* One user, who may set or drop their username between two messages, and logs for the
\* first exercise
Changing ==
    [users |-> {1},
     usernames |-> [u \in Users |-> {None, Handles[u]}],
     aliases |-> {EXERCISES[1].alias},
     amounts |-> 1..MaxAmount,
     maxTime |-> MaxTime]

\* One user who types capitals, aliases nobody knows and numbers of any sign
Careless ==
    [users |-> {1},
     usernames |-> [u \in Users |-> {None}],
     aliases |-> {EXERCISES[1].alias, "PLK", "xyz", "XYZ"},
     amounts |-> (0 - 1)..MaxAmount,
     maxTime |-> 1]

\* One user without a username who logs the largest number for the first exercise
Solo ==
    [users |-> {1},
     usernames |-> [u \in Users |-> {None}],
     aliases |-> {EXERCISES[1].alias},
     amounts |-> {MaxAmount},
     maxTime |-> 1]

Idle ==
    [pc |-> "idle", user |-> 0, username |-> None, alias |-> None, reps |-> 0,
     exercise_id |-> None, goal |-> <<>>, old_total |-> 0, new_total |-> 0,
     ts |-> 0, entry |-> 0, failed_at |-> None, typed |-> None,
     ids |-> <<>>, i |-> 0, all_player_data |-> <<>>, aliases |-> EmptyHash, todo |-> {},
     all_exercise_details |-> <<>>, player_labels |-> <<>>, chart |-> <<>>,
     user_progress |-> <<>>, summary |-> <<>>]

\* the locals of a handler that starts for user u, who typed "/<typed> ..."; lines 88
\* and 154: alias = match.group(1).lower()
Begin(pc, u, un, typed, reps) ==
    [Idle EXCEPT !.pc = pc, !.user = u, !.username = un, !.typed = typed,
                 !.alias = Lower(typed), !.reps = reps]

AllIdle == \A p \in Procs : proc[p].pc \in {"idle", "boot"}

NoDetails == [e \in StoredExIds |-> EmptyHash]

NoRows == [u \in Users |-> EmptyHash]

\* a store left by an earlier deployment whose first exercise has goal field g (<<>>: none)
LegacyDetails(g) ==
    [e \in StoredExIds |->
        IF e = example_ex_id
        THEN IF g = <<>> THEN [name |-> EXERCISES[1].name]
             ELSE [name |-> EXERCISES[1].name, goal |-> g[1]]
        ELSE IF e \in ExIds THEN SeedDetails(NoDetails)[e]
        ELSE EmptyHash]

LegacyGoals == {<<>>, << <<"0">> >>, << <<"x">> >>}

InitRest ==
    /\ playerRows = NoRows
    /\ playersSet = {}
    /\ userInfo = [u \in Users |-> EmptyHash]
    /\ now = 1
    /\ proc = [p \in Procs |-> [Idle EXCEPT !.pc = "boot"]]
    /\ log = <<>>
    /\ notices = {}
    /\ calls = 0
    /\ accepted = [u \in Users |-> [e \in StoredExIds |-> 0]]
    /\ seeded = <<>>
    /\ returns = <<>>

\* lines 19-28: every instance connected to Redis when it imported redis_client
Connected == redis_conn = [p \in Procs |-> "Redis"]

\* Redis is empty, or holds the catalog of an earlier deployment
Init ==
    /\ \/ aliasIdx = EmptyHash /\ exDetails = NoDetails
       \/ \E g \in LegacyGoals :
            aliasIdx = SeedAliases(EmptyHash) /\ exDetails = LegacyDetails(g)
    /\ InitRest
    /\ Connected

(***************************************************************************)
(* Import of redis_client (line 222): setup_initial_data, in its two       *)
(* round trips to Redis.                                                   *)
(***************************************************************************)
SeedCheck(p) ==
    /\ proc[p].pc = "boot"
    /\ redis_conn[p] # None
    /\ IF needs_setup(exDetails)
       THEN proc' = [proc EXCEPT ![p].pc = "seed_exec"]
       ELSE proc' = [proc EXCEPT ![p].pc = "idle"]
    /\ UNCHANGED <<store, now, log, notices, calls, accepted, seeded, client>>

SeedExec(p) ==
    /\ proc[p].pc = "seed_exec"
    /\ aliasIdx' = SeedAliases(aliasIdx)
    /\ exDetails' = SeedDetails(exDetails)
    /\ proc' = [proc EXCEPT ![p].pc = "idle"]
    /\ UNCHANGED <<playerRows, playersSet, userInfo, now, log, notices, calls, accepted, seeded, client>>

(***************************************************************************)
(* main.record_progress_handler: "/alias <n>".                             *)
(***************************************************************************)
\* a bug: "goal == new_total", so a total that jumps over the goal is not announced
GoalReachedLanding(goal, old_total, new_total) ==
    /\ goal # <<>>
    /\ goal[1] > 0
    /\ old_total < goal[1]
    /\ goal[1] = new_total

\* a bug: "goal < new_total", so a total that lands on the goal is not announced
GoalReachedStrict(goal, old_total, new_total) ==
    /\ goal # <<>>
    /\ goal[1] > 0
    /\ old_total < goal[1]
    /\ goal[1] < new_total

\* a bug: the total read before the increment is not compared with the goal
GoalReachedNoSnapshot(goal, old_total, new_total) ==
    /\ goal # <<>>
    /\ goal[1] > 0
    /\ goal[1] <= new_total

\* a bug: "old_total <= goal", so a total already on the goal is announced again
GoalReachedOldInclusive(goal, old_total, new_total) ==
    /\ goal # <<>>
    /\ goal[1] > 0
    /\ old_total <= goal[1]
    /\ goal[1] <= new_total

\* lines 128-129: is the goal message due
GoalReached(goal, old_total, new_total) ==
    /\ goal # <<>>
    /\ goal[1] # 0
    /\ goal[1] > 0
    /\ old_total < goal[1]
    /\ goal[1] <= new_total

\* the number of a message "/alias <number>" as the user typed it
AmountText(n) == IF n < 0 THEN <<"-">> \o IntToStr(0 - n) ELSE IntToStr(n)

\* line 73: EXERCISE_LOG_PATTERN takes digits only, (\d+)
LogPatternMatches(text) == IsIntStr(text)

\* a bug: "reps < 0", so a 0 is recorded
RefusedBelowZero(reps) == reps < 0

\* line 93
Refused(reps) == reps <= 0

\* lines 80-95: the message is parsed: one that does not match the pattern is not
\* handled, and a number that is not positive is refused
StartRecord(p, W) ==
    /\ proc[p].pc = "idle"
    /\ calls < MaxCalls
    /\ \E u \in W.users, alias \in W.aliases, n \in W.amounts :
         \E un \in W.usernames[u] :
            LET text == AmountText(n)
                reps == StrToInt(text)
            IN  proc' = [proc EXCEPT ![p] =
                            IF ~LogPatternMatches(text)
                            THEN Begin("rec_unmatched", u, un, alias, n)
                            ELSE IF Refused(reps) THEN Begin("rec_refuse", u, un, alias, reps)
                            ELSE Begin("rec_alias", u, un, alias, reps)]
    /\ calls' = calls + 1
    /\ UNCHANGED <<store, now, log, notices, accepted, seeded, client>>

\* line 86, and the filter of main line 357: the message is not a log command
RecUnmatched(p) ==
    /\ proc[p].pc = "rec_unmatched"
    /\ proc' = [proc EXCEPT ![p] = Idle]
    /\ UNCHANGED <<store, now, log, notices, calls, accepted, seeded, client>>

\* line 94: "Progress value must be positive."
RecRefuse(p) ==
    /\ proc[p].pc = "rec_refuse"
    /\ proc' = [proc EXCEPT ![p] = Idle]
    /\ UNCHANGED <<store, now, log, notices, calls, accepted, seeded, client>>

\* line 98: HGET exercise:aliases alias
RecAlias(p) ==
    /\ proc[p].pc = "rec_alias"
    /\ LET found == get_exercise_id_from_alias(aliasIdx, proc[p].alias)
       IN  proc' = [proc EXCEPT ![p] =
                       IF found = <<>> THEN Idle
                       ELSE [@ EXCEPT !.pc = "rec_details", !.exercise_id = found[1]]]
    /\ UNCHANGED <<store, now, log, notices, calls, accepted, seeded, client>>

\* lines 104-111: HGETALL exercise:details:<id>
RecDetails(p) ==
    /\ proc[p].pc = "rec_details"
    /\ LET details == get_exercise_details(exDetails[proc[p].exercise_id])
       IN  /\ proc' = [proc EXCEPT ![p] =
                       IF DOMAIN details = {} THEN Idle
                       ELSE [@ EXCEPT !.pc = "rec_read", !.goal = HGet(details, "goal")]]
           /\ accepted' = IF DOMAIN details = {} THEN accepted
                          ELSE [accepted EXCEPT ![proc[p].user][proc[p].exercise_id] =
                                                    @ + proc[p].reps]
    /\ UNCHANGED <<store, now, log, notices, calls, seeded, client>>

\* lines 113-114: HGETALL player:<id>; then record_player_progress reads the clock
RecRead(p, W) ==
    /\ proc[p].pc = "rec_read"
    /\ \E t \in now..W.maxTime :
         /\ now' = t
         /\ proc' = [proc EXCEPT
                ![p].old_total =
                    DictGet(get_player_progress(playerRows[proc[p].user]),
                            proc[p].exercise_id, 0),
                ![p].ts = t,
                ![p].pc = IF proc[p].username # None THEN "rec_hset" ELSE "rec_hdel"]
    /\ UNCHANGED <<store, log, notices, calls, accepted, seeded, client>>

\* store_user_info, line 108
RecHDel(p) ==
    /\ proc[p].pc = "rec_hdel"
    /\ userInfo' = [userInfo EXCEPT ![proc[p].user] = InfoHDel(@)]
    /\ proc' = [proc EXCEPT ![p].pc = "rec_hset"]
    /\ UNCHANGED <<aliasIdx, exDetails, playerRows, playersSet, now, log, notices, calls, accepted, seeded, client>>

\* store_user_info, line 114
RecHSet(p) ==
    /\ proc[p].pc = "rec_hset"
    /\ userInfo' = [userInfo EXCEPT ![proc[p].user] =
                       InfoHSet(@, first_name(proc[p].user), proc[p].username, <<proc[p].ts>>)]
    /\ proc' = [proc EXCEPT ![p].pc = "rec_sadd"]
    /\ UNCHANGED <<aliasIdx, exDetails, playerRows, playersSet, now, log, notices, calls, accepted, seeded, client>>

\* line 139
RecSAdd(p) ==
    /\ proc[p].pc = "rec_sadd"
    /\ playersSet' = SAdd(playersSet, proc[p].user)
    /\ proc' = [proc EXCEPT ![p].pc = "rec_incr"]
    /\ UNCHANGED <<aliasIdx, exDetails, playerRows, userInfo, now, log, notices, calls, accepted, seeded, client>>

\* a bug: the handler adds to the total it read and stores the sum (HSET old + value)
IncrementScoreFromSnapshot(row, exercise_id, value, old_total) ==
    [f \in (DOMAIN row) \cup {exercise_id} |->
        IF f = exercise_id THEN IntToStr(old_total + value) ELSE row[f]]

\* record_player_progress, line 141: the score is added to by Redis (HINCRBY), whatever
\* total the handler read before
IncrementScore(row, exercise_id, value, old_total) == HIncrBy(row, exercise_id, value)

\* line 141: HINCRBY; then main lines 121-129
RecIncr(p) ==
    /\ proc[p].pc = "rec_incr"
    /\ LET me == proc[p]
           new_total == HIncrByResult(playerRows[me.user], me.exercise_id, me.reps)
       IN  /\ playerRows' = [playerRows EXCEPT ![me.user] =
                                IncrementScore(@, me.exercise_id, me.reps, me.old_total)]
           /\ log' = Append(log, [kind |-> "record", user |-> me.user,
                                  exercise_id |-> me.exercise_id, amount |-> me.reps,
                                  old_total |-> me.old_total, new_total |-> new_total])
           /\ proc' = [proc EXCEPT ![p] =
                          IF GoalReached(me.goal, me.old_total, new_total)
                          THEN [@ EXCEPT !.pc = "rec_notify", !.new_total = new_total,
                                         !.entry = Len(log) + 1]
                          ELSE Idle]
    /\ UNCHANGED <<aliasIdx, exDetails, playersSet, userInfo, now, notices, calls, accepted, seeded, client>>

\* lines 130-137: HGETALL user:info:<id>, and the goal message is sent
RecNotify(p) ==
    /\ proc[p].pc = "rec_notify"
    /\ notices' = notices \cup
            {[entry |-> proc[p].entry, user |-> proc[p].user,
              exercise_id |-> proc[p].exercise_id, goal |-> proc[p].goal[1],
              new_total |-> proc[p].new_total,
              name |-> DisplayName(userInfo[proc[p].user], proc[p].user)]}
    /\ proc' = [proc EXCEPT ![p] = Idle]
    /\ UNCHANGED <<store, now, log, calls, accepted, seeded, client>>

(***************************************************************************)
(* record_progress_handler when a Redis command fails: the command raises  *)
(* redis.ConnectionError and the server has not run it.                    *)
(***************************************************************************)
\* the commands of lines 98, 104 and 113, issued before the try of line 116
BeforeTry == {"rec_alias", "rec_details", "rec_read"}

\* the commands of record_player_progress, called inside the try
InsideTry == {"rec_hdel", "rec_hset", "rec_sadd", "rec_incr"}

\* a command before the try fails: the exception leaves the handler
RecRaise(p) ==
    /\ proc[p].pc \in BeforeTry
    /\ proc' = [proc EXCEPT ![p].pc = "rec_raised", ![p].failed_at = proc[p].pc]
    /\ UNCHANGED <<store, now, log, notices, calls, accepted, seeded, client>>

\* the dispatcher logs the exception; the update is dropped
RecRaised(p) ==
    /\ proc[p].pc = "rec_raised"
    /\ proc' = [proc EXCEPT ![p] = Idle]
    /\ UNCHANGED <<store, now, log, notices, calls, accepted, seeded, client>>

\* a command of record_player_progress fails: neither it nor store_user_info catches
\* the exception, the handler does (line 139)
RecCatch(p) ==
    /\ proc[p].pc \in InsideTry
    /\ proc' = [proc EXCEPT ![p].pc = "rec_error", ![p].failed_at = proc[p].pc]
    /\ UNCHANGED <<store, now, log, notices, calls, accepted, seeded, client>>

\* lines 140-141: the user is told that the progress was not saved
RecError(p) ==
    /\ proc[p].pc = "rec_error"
    /\ proc' = [proc EXCEPT ![p] = Idle]
    /\ UNCHANGED <<store, now, log, notices, calls, accepted, seeded, client>>

Faults(p) == RecRaise(p) \/ RecRaised(p) \/ RecCatch(p) \/ RecError(p)

(***************************************************************************)
(* main.reset_progress_handler: "/alias reset".                            *)
(***************************************************************************)
StartReset(p, W) ==
    /\ proc[p].pc = "idle"
    /\ calls < MaxCalls
    /\ \E u \in W.users, alias \in W.aliases :
         \E un \in W.usernames[u] :
            proc' = [proc EXCEPT ![p] = Begin("rst_alias", u, un, alias, 0)]
    /\ calls' = calls + 1
    /\ UNCHANGED <<store, now, log, notices, accepted, seeded, client>>

\* line 157
RstAlias(p) ==
    /\ proc[p].pc = "rst_alias"
    /\ LET found == get_exercise_id_from_alias(aliasIdx, proc[p].alias)
       IN  proc' = [proc EXCEPT ![p] =
                       IF found = <<>> THEN [@ EXCEPT !.pc = "rst_unknown"]
                       ELSE [@ EXCEPT !.pc = "rst_details", !.exercise_id = found[1]]]
    /\ UNCHANGED <<store, now, log, notices, calls, accepted, seeded, client>>

\* line 159: "Sorry, I don't recognize ..."
RstUnknown(p) ==
    /\ proc[p].pc = "rst_unknown"
    /\ proc' = [proc EXCEPT ![p] = Idle]
    /\ UNCHANGED <<store, now, log, notices, calls, accepted, seeded, client>>

\* lines 162-167; then reset_player_exercise reads the clock
RstDetails(p, W) ==
    /\ proc[p].pc = "rst_details"
    /\ LET details == get_exercise_details(exDetails[proc[p].exercise_id])
       IN  IF DOMAIN details = {}
           THEN proc' = [proc EXCEPT ![p] = Idle] /\ UNCHANGED now
           ELSE \E t \in now..W.maxTime :
                  /\ now' = t
                  /\ proc' = [proc EXCEPT
                         ![p].ts = t,
                         ![p].pc = IF proc[p].username # None THEN "rst_hset" ELSE "rst_hdel"]
    /\ UNCHANGED <<store, log, notices, calls, accepted, seeded, client>>

\* store_user_info, line 108
RstHDel(p) ==
    /\ proc[p].pc = "rst_hdel"
    /\ userInfo' = [userInfo EXCEPT ![proc[p].user] = InfoHDel(@)]
    /\ proc' = [proc EXCEPT ![p].pc = "rst_hset"]
    /\ UNCHANGED <<aliasIdx, exDetails, playerRows, playersSet, now, log, notices, calls, accepted, seeded, client>>

\* store_user_info, line 114
RstHSet(p) ==
    /\ proc[p].pc = "rst_hset"
    /\ userInfo' = [userInfo EXCEPT ![proc[p].user] =
                       InfoHSet(@, first_name(proc[p].user), proc[p].username, <<proc[p].ts>>)]
    /\ proc' = [proc EXCEPT ![p].pc = "rst_zero"]
    /\ UNCHANGED <<aliasIdx, exDetails, playerRows, playersSet, now, log, notices, calls, accepted, seeded, client>>

\* line 155: HSET player:<id> <exercise> 0
RstZero(p) ==
    /\ proc[p].pc = "rst_zero"
    /\ playerRows' = [playerRows EXCEPT ![proc[p].user] =
                         ResetScore(@, proc[p].exercise_id)]
    /\ log' = Append(log, [kind |-> "reset", user |-> proc[p].user,
                           exercise_id |-> proc[p].exercise_id, amount |-> 0,
                           old_total |-> 0, new_total |-> 0])
    /\ proc' = [proc EXCEPT ![p].pc = "rst_sadd"]
    /\ UNCHANGED <<aliasIdx, exDetails, playersSet, userInfo, now, notices, calls, accepted, seeded, client>>

\* line 157
RstSAdd(p) ==
    /\ proc[p].pc = "rst_sadd"
    /\ playersSet' = SAdd(playersSet, proc[p].user)
    /\ proc' = [proc EXCEPT ![p] = Idle]
    /\ UNCHANGED <<aliasIdx, exDetails, playerRows, userInfo, now, log, notices, calls, accepted, seeded, client>>

(***************************************************************************)
(* main.all_progress: "/all", and chart_generator.generate_all_progress_chart. *)
(***************************************************************************)
\* the orders in which a set can be iterated
Orders(S) ==
    {q \in [1..Cardinality(S) -> S] : \A x \in S : \E i \in DOMAIN q : q[i] = x}

\* a bug: a player whose row is empty is left out of the result
DictPutUnlessEmpty(d, key, value) ==
    IF DOMAIN value = {} THEN d
    ELSE [k \in (DOMAIN d) \cup {key} |-> IF k = key THEN value ELSE d[k]]

\* dict[key] = value
DictPut(d, key, value) ==
    [k \in (DOMAIN d) \cup {key} |-> IF k = key THEN value ELSE d[k]]

\* sorted(d.items(), key=lambda item: item[1]['name']), the keys of the result
RECURSIVE SortedByName(_, _)
SortedByName(d, keys) ==
    IF keys = {} THEN <<>>
    ELSE LET first == CHOOSE k \in keys :
                         \A o \in keys : NameRank(d[k]["name"]) <= NameRank(d[o]["name"])
         IN  <<first>> \o SortedByName(d, keys \ {first})

\* main line 248: strftime('%Y-%m-%d %H:%M') keeps the minute of the timestamp
SecondsPerMinute == 60

FormatTime(t) == IntToStr(t \div SecondsPerMinute)

\* main lines 246-251: the label of a player
PlayerLabel(info, user_id) ==
    LET last == LastUpdate(info)
    IN  IF last # <<>> /\ last[1] # 0
        THEN DisplayName(info, user_id) \o <<" (Upd: ">> \o FormatTime(last[1]) \o <<")">>
        ELSE DisplayName(info, user_id)

\* a bug: the rows are looked up by str(user_id), a key exercise_data does not have
generate_all_progress_chart_str_keys(player_labels, player_ids, exercise_data, exercise_details) ==
    LET exercise_ids == SortedByName(exercise_details, DOMAIN exercise_details)
    IN  IF \/ DOMAIN exercise_data = {} \/ DOMAIN exercise_details = {}
           \/ player_labels = <<>> \/ player_ids = <<>>
        THEN <<>>
        ELSE << [exercise_ids |-> exercise_ids,
                 exercise_names |-> [i \in 1..Len(exercise_ids) |->
                                        exercise_details[exercise_ids[i]]["name"]],
                 player_labels |-> player_labels,
                 scores |-> [i \in 1..Len(exercise_ids) |->
                               [j \in 1..Len(player_ids) |-> 0]]] >>

\* a bug: the guards of lines 83 and 96 look at the players only
generate_all_progress_chart_unguarded(player_labels, player_ids, exercise_data, exercise_details) ==
    LET exercise_ids == SortedByName(exercise_details, DOMAIN exercise_details)
    IN  IF DOMAIN exercise_data = {} \/ player_labels = <<>> \/ player_ids = <<>>
        THEN <<>>
        ELSE << [exercise_ids |-> exercise_ids,
                 exercise_names |-> [i \in 1..Len(exercise_ids) |->
                                        exercise_details[exercise_ids[i]]["name"]],
                 player_labels |-> player_labels,
                 scores |-> [i \in 1..Len(exercise_ids) |-> [j \in 1..Len(player_ids) |->
                               DictGet(DictGet(exercise_data, player_ids[j], <<>>),
                                       exercise_ids[i], 0)]]] >>

\* chart_generator lines 83-104: <<>> for the empty buffer, or <<the chart's data>>
generate_all_progress_chart(player_labels, player_ids, exercise_data, exercise_details) ==
    LET exercise_ids == SortedByName(exercise_details, DOMAIN exercise_details)
        num_players == Len(player_ids)
        num_exercises == Len(exercise_ids)
    IN  IF \/ DOMAIN exercise_data = {} \/ DOMAIN exercise_details = {}
           \/ player_labels = <<>> \/ player_ids = <<>>
           \/ num_players = 0 \/ num_exercises = 0
        THEN <<>>
        ELSE << [exercise_ids |-> exercise_ids,
                 exercise_names |-> [i \in 1..num_exercises |->
                                        exercise_details[exercise_ids[i]]["name"]],
                 player_labels |-> player_labels,
                 scores |-> [i \in 1..num_exercises |-> [j \in 1..num_players |->
                               DictGet(DictGet(exercise_data, player_ids[j], <<>>),
                                       exercise_ids[i], 0)]]] >>

\* the keys of all_player_data, in insertion order
PlayerIds(ids) == [i \in 1..Len(ids) |-> StrToInt(ids[i])]

StartAll(p) ==
    /\ proc[p].pc = "idle"
    /\ calls < MaxCalls
    /\ proc' = [proc EXCEPT ![p].pc = "all_smembers"]
    /\ calls' = calls + 1
    /\ UNCHANGED <<store, now, log, notices, accepted, seeded, client>>

\* get_all_players_progress, lines 178-179: SMEMBERS players:ids
AllSMembers(p) ==
    /\ proc[p].pc = "all_smembers"
    /\ \E ids \in Orders(playersSet) :
         proc' = [proc EXCEPT ![p].ids = ids,
                              ![p].pc = IF ids = <<>> THEN "all_aliases" ELSE "all_row"]
    /\ UNCHANGED <<store, now, log, notices, calls, accepted, seeded, client>>

\* lines 180-191: the pipeline is not a transaction; one HGETALL player:<id> at a time
AllRow(p) ==
    /\ proc[p].pc = "all_row"
    /\ LET me == proc[p]
           user_id == StrToInt(me.ids[me.i + 1])
           data == DictPut(me.all_player_data, user_id,
                           get_player_progress(playerRows[user_id]))
       IN  proc' = [proc EXCEPT
                ![p].all_player_data = data,
                ![p].i = me.i + 1,
                ![p].pc = IF me.i + 1 = Len(me.ids) THEN "all_aliases" ELSE "all_row"]
    /\ UNCHANGED <<store, now, log, notices, calls, accepted, seeded, client>>

\* main line 241, once get_all_exercise_details has returned
AfterDetails(me) == IF DOMAIN me.all_player_data = {} THEN "idle" ELSE "all_label"

\* get_all_exercise_details, lines 88-91: HGETALL exercise:aliases
AllAliases(p) ==
    /\ proc[p].pc = "all_aliases"
    /\ LET me == proc[p]
       IN  proc' = [proc EXCEPT ![p] =
               IF DOMAIN aliasIdx = {}
               THEN IF AfterDetails(me) = "idle" THEN Idle
                    ELSE [me EXCEPT !.pc = AfterDetails(me)]
               ELSE [me EXCEPT !.aliases = aliasIdx, !.todo = DOMAIN aliasIdx,
                               !.pc = "all_details"]]
    /\ UNCHANGED <<store, now, log, notices, calls, accepted, seeded, client>>

\* lines 92-96: HGETALL exercise:details:<id> for the next alias
AllDetails(p) ==
    /\ proc[p].pc = "all_details"
    /\ LET me == proc[p]
           alias == CHOOSE a \in me.todo : TRUE
           ex_id == me.aliases[alias]
           details == get_exercise_details(exDetails[ex_id])
           all_details == IF DOMAIN details = {} THEN me.all_exercise_details
                          ELSE DictPut(me.all_exercise_details, ex_id,
                                       HSet(details, [f \in {"alias"} |-> alias]))
           todo == me.todo \ {alias}
       IN  proc' = [proc EXCEPT ![p] =
               IF todo # {}
               THEN [me EXCEPT !.todo = todo, !.all_exercise_details = all_details]
               ELSE IF AfterDetails(me) = "idle" THEN Idle
               ELSE [me EXCEPT !.todo = todo, !.all_exercise_details = all_details,
                               !.pc = AfterDetails(me)]]
    /\ UNCHANGED <<store, now, log, notices, calls, accepted, seeded, client>>

\* main lines 245-257: HGETALL user:info:<id> for the next player; after the last
\* one the chart is generated
AllLabel(p) ==
    /\ proc[p].pc = "all_label"
    /\ LET me == proc[p]
           player_ids == PlayerIds(me.ids)
           user_id == player_ids[Len(me.player_labels) + 1]
           labels == Append(me.player_labels, PlayerLabel(userInfo[user_id], user_id))
           chart == generate_all_progress_chart(labels, player_ids, me.all_player_data,
                                                me.all_exercise_details)
       IN  proc' = [proc EXCEPT ![p] =
               IF Len(labels) < Len(player_ids) THEN [@ EXCEPT !.player_labels = labels]
               ELSE IF chart = <<>> THEN Idle
               ELSE [@ EXCEPT !.player_labels = labels, !.chart = chart, !.pc = "all_send"]]
    /\ UNCHANGED <<store, now, log, notices, calls, accepted, seeded, client>>

\* main line 260: the photo is sent
AllSend(p) ==
    /\ proc[p].pc = "all_send"
    /\ proc' = [proc EXCEPT ![p] = Idle]
    /\ UNCHANGED <<store, now, log, notices, calls, accepted, seeded, client>>

(***************************************************************************)
(* main.my_progress: "/my".                                                *)
(***************************************************************************)
\* a bug: only the exercises the player has logged are listed
PlayerSummaryLoggedOnly(user_progress, all_exercise_details) ==
    LET exercise_ids == SortedByName(all_exercise_details,
                                     (DOMAIN all_exercise_details) \cap (DOMAIN user_progress))
    IN  [exercise_ids |-> exercise_ids,
         labels |-> [i \in 1..Len(exercise_ids) |-> all_exercise_details[exercise_ids[i]]["name"]],
         values |-> [i \in 1..Len(exercise_ids) |-> user_progress[exercise_ids[i]]],
         goals |-> [i \in 1..Len(exercise_ids) |->
                      HGet(all_exercise_details[exercise_ids[i]], "goal")]]

\* lines 209-214: labels, values and goals, by exercise name; a goal is <<g>>, or <<>>
\* for the None of a record without one
PlayerSummary(user_progress, all_exercise_details) ==
    LET exercise_ids == SortedByName(all_exercise_details, DOMAIN all_exercise_details)
    IN  [exercise_ids |-> exercise_ids,
         labels |-> [i \in 1..Len(exercise_ids) |-> all_exercise_details[exercise_ids[i]]["name"]],
         values |-> [i \in 1..Len(exercise_ids) |->
                       DictGet(user_progress, exercise_ids[i], 0)],
         goals |-> [i \in 1..Len(exercise_ids) |->
                      HGet(all_exercise_details[exercise_ids[i]], "goal")]]

\* lines 194-196
StartMy(p, W) ==
    /\ proc[p].pc = "idle"
    /\ calls < MaxCalls
    /\ \E u \in W.users : \E un \in W.usernames[u] :
          proc' = [proc EXCEPT ![p] = Begin("my_row", u, un, None, 0)]
    /\ calls' = calls + 1
    /\ UNCHANGED <<store, now, log, notices, accepted, seeded, client>>

\* line 198: HGETALL player:<id>
MyRow(p) ==
    /\ proc[p].pc = "my_row"
    /\ proc' = [proc EXCEPT ![p].user_progress = get_player_progress(playerRows[proc[p].user]),
                            ![p].pc = "my_aliases"]
    /\ UNCHANGED <<store, now, log, notices, calls, accepted, seeded, client>>

\* line 201, once get_all_exercise_details has returned
AfterMyDetails(me) == IF DOMAIN me.user_progress = {} THEN "my_empty" ELSE "my_name"

\* line 199, get_all_exercise_details lines 88-91: HGETALL exercise:aliases
MyAliases(p) ==
    /\ proc[p].pc = "my_aliases"
    /\ LET me == proc[p]
       IN  proc' = [proc EXCEPT ![p] =
               IF DOMAIN aliasIdx = {} THEN [me EXCEPT !.pc = AfterMyDetails(me)]
               ELSE [me EXCEPT !.aliases = aliasIdx, !.todo = DOMAIN aliasIdx,
                               !.pc = "my_details"]]
    /\ UNCHANGED <<store, now, log, notices, calls, accepted, seeded, client>>

\* get_all_exercise_details lines 92-96: HGETALL exercise:details:<id> for the next alias
MyDetails(p) ==
    /\ proc[p].pc = "my_details"
    /\ LET me == proc[p]
           alias == CHOOSE a \in me.todo : TRUE
           ex_id == me.aliases[alias]
           details == get_exercise_details(exDetails[ex_id])
           all_details == IF DOMAIN details = {} THEN me.all_exercise_details
                          ELSE DictPut(me.all_exercise_details, ex_id,
                                       HSet(details, [f \in {"alias"} |-> alias]))
           todo == me.todo \ {alias}
       IN  proc' = [proc EXCEPT ![p] =
               [me EXCEPT !.todo = todo, !.all_exercise_details = all_details,
                          !.pc = IF todo # {} THEN "my_details" ELSE AfterMyDetails(me)]]
    /\ UNCHANGED <<store, now, log, notices, calls, accepted, seeded, client>>

\* lines 201-207: "You haven't logged any exercises yet!"
MyEmpty(p) ==
    /\ proc[p].pc = "my_empty"
    /\ proc' = [proc EXCEPT ![p] = Idle]
    /\ UNCHANGED <<store, now, log, notices, calls, accepted, seeded, client>>

\* a bug: my_progress refreshes the user's info record as message_store_handler does
\* (main line 292) before it reads the display name
MyNameStoringInfo(p) ==
    /\ proc[p].pc = "my_name"
    /\ LET me == proc[p]
           summary == PlayerSummary(me.user_progress, me.all_exercise_details)
       IN  /\ userInfo' = [userInfo EXCEPT ![me.user] =
                              InfoHSet(@, first_name(me.user), me.username, <<>>)]
           /\ proc' = [proc EXCEPT ![p] =
                  IF summary.labels = <<>> \/ summary.values = <<>> THEN Idle
                  ELSE [me EXCEPT !.summary = <<summary>>, !.pc = "my_send"]]
    /\ UNCHANGED <<aliasIdx, exDetails, playerRows, playersSet, now, log, notices, calls,
                   accepted, seeded, client>>

\* lines 209-223: HGETALL user:info:<id>, the summary, and the chart of it, which is
\* empty when there is no label (chart_generator line 15)
MyName(p) ==
    /\ proc[p].pc = "my_name"
    /\ LET me == proc[p]
           summary == PlayerSummary(me.user_progress, me.all_exercise_details)
       IN  proc' = [proc EXCEPT ![p] =
               IF summary.labels = <<>> \/ summary.values = <<>> THEN Idle
               ELSE [me EXCEPT !.summary = <<summary>>, !.pc = "my_send"]]
    /\ UNCHANGED <<store, now, log, notices, calls, accepted, seeded, client>>

\* line 226: the chart is sent to the user
MySend(p) ==
    /\ proc[p].pc = "my_send"
    /\ proc' = [proc EXCEPT ![p] = Idle]
    /\ UNCHANGED <<store, now, log, notices, calls, accepted, seeded, client>>

My(p, W) ==
    \/ StartMy(p, W) \/ MyRow(p) \/ MyAliases(p) \/ MyDetails(p)
    \/ MyEmpty(p) \/ MyName(p) \/ MySend(p)

(***************************************************************************)
(* main.hard_reset_handler: "/hardreset".                                  *)
(***************************************************************************)
\* lines 316-318
StartHardReset(p, W) ==
    /\ proc[p].pc = "idle"
    /\ calls < MaxCalls
    /\ \E u \in W.users : \E un \in W.usernames[u] :
          proc' = [proc EXCEPT ![p] = Begin("hr_admin", u, un, None, 0)]
    /\ calls' = calls + 1
    /\ UNCHANGED <<store, now, log, notices, accepted, seeded, client>>

\* lines 320-323: is_user_admin asks Telegram (lines 377-390); who is not an
\* administrator of the chat is turned away
HrAdmin(p) ==
    /\ proc[p].pc = "hr_admin"
    /\ \E is_admin \in BOOLEAN :
          proc' = [proc EXCEPT ![p] = IF is_admin THEN [@ EXCEPT !.pc = "hr_setup"] ELSE Idle]
    /\ UNCHANGED <<store, now, log, notices, calls, accepted, seeded, client>>

\* line 326: rc.setup_initial_data(hard_reset=True).  setup_initial_data takes no
\* parameter (redis_client.py line 45), so the call raises TypeError before any of it
\* runs; the exception leaves the handler and line 327 is not reached.
HrSetup(p) ==
    /\ proc[p].pc = "hr_setup"
    /\ proc' = [proc EXCEPT ![p] = Idle]
    /\ UNCHANGED <<store, now, log, notices, calls, accepted, seeded, client>>

Admin(p, W) == StartHardReset(p, W) \/ HrAdmin(p) \/ HrSetup(p)

(***************************************************************************)
(* redis_client called when Redis cannot be reached: the import found no   *)
(* server and left redis_conn None (lines 30-40), or the connection made   *)
(* at import has broken since and a command raises redis.ConnectionError.  *)
(***************************************************************************)
\* setup_initial_data, line 47
SeedSkip(p) ==
    /\ proc[p].pc = "boot"
    /\ redis_conn[p] = None
    /\ proc' = [proc EXCEPT ![p].pc = "idle"]
    /\ UNCHANGED <<store, now, log, notices, calls, accepted, seeded, client>>

\* lines 133, 170, 176 and 86: what each function returns when redis_conn is None
NoConnection ==
    [record_player_progress |-> 0,
     get_player_progress |-> EmptyHash,
     get_all_players_progress |-> EmptyHash,
     get_all_exercise_details |-> EmptyHash]

\* what a call of fn gives its caller when Redis cannot be reached: the value returned
\* behind "if not redis_conn", or else the exception of its first Redis command, which
\* none of the four functions catches
Unreached(fn, conn) ==
    IF conn = None
    THEN [fn |-> fn, redis_conn |-> conn, raised |-> FALSE, value |-> <<NoConnection[fn]>>]
    ELSE [fn |-> fn, redis_conn |-> conn, raised |-> TRUE, value |-> <<>>]

\* a call of fn by instance p while Redis cannot be reached; nothing is written
CallUnreached(p, fn) ==
    /\ proc[p].pc = "idle"
    /\ calls < MaxCalls
    /\ calls' = calls + 1
    /\ returns' = Append(returns, Unreached(fn, redis_conn[p]))
    /\ UNCHANGED <<store, now, proc, log, notices, accepted, seeded, redis_conn>>

\* lines 131-142
record_player_progress_unreached(p) == CallUnreached(p, "record_player_progress")

\* lines 169-173
get_player_progress_unreached(p) == CallUnreached(p, "get_player_progress")

\* lines 175-192
get_all_players_progress_unreached(p) == CallUnreached(p, "get_all_players_progress")

\* lines 85-97
get_all_exercise_details_unreached(p) == CallUnreached(p, "get_all_exercise_details")

(***************************************************************************)
(* Specifications.                                                         *)
(***************************************************************************)
Step(p, W) ==
    \/ SeedCheck(p) \/ SeedExec(p)
    \/ StartRecord(p, W) \/ RecAlias(p) \/ RecDetails(p) \/ RecRead(p, W)
    \/ RecHDel(p) \/ RecHSet(p) \/ RecSAdd(p) \/ RecIncr(p) \/ RecNotify(p)
    \/ StartReset(p, W) \/ RstAlias(p) \/ RstDetails(p, W)
    \/ RstHDel(p) \/ RstHSet(p) \/ RstZero(p) \/ RstSAdd(p)

\* several bot instances on one Redis
Next == \E p \in Procs : Step(p, Regulars)

Spec == Init /\ [][Next]_vars

View(p) ==
    \/ StartAll(p) \/ AllSMembers(p) \/ AllRow(p) \/ AllAliases(p) \/ AllDetails(p)
    \/ AllLabel(p) \/ AllSend(p)

\* the replies to what cannot be handled
Turned(p) == RecRefuse(p) \/ RstUnknown(p)

\* one bot instance: its handlers run one after the other
SeqNext == Step(1, Anything) \/ View(1) \/ Turned(1)

SpecSeq == Init /\ [][SeqNext]_vars

(***************************************************************************)
(* Two bot instances started on an empty Redis: both import redis_client   *)
(* and run setup_initial_data, while the one that is ready serves a user.  *)
(***************************************************************************)
BootInit ==
    /\ aliasIdx = EmptyHash
    /\ exDetails = NoDetails
    /\ InitRest
    /\ Connected

BootNext == \E p \in Procs : Step(p, Solo)

SpecBoot == BootInit /\ [][BootNext]_vars

\* one bot instance, started on an empty Redis, in a chat with an administrator
AdminNext == Step(1, Solo) \/ Admin(1, Solo)

SpecAdmin == BootInit /\ [][AdminNext]_vars

\* one bot instance whose users log, reset and ask for their own chart
MyNext == Step(1, Regulars) \/ My(1, Regulars)

SpecMy == Init /\ [][MyNext]_vars

\* one bot instance that records and resets, and a second one that draws the group
\* chart meanwhile
ScanNext == Step(1, Regulars) \/ SeedCheck(2) \/ SeedExec(2) \/ View(2)

SpecScan == Init /\ [][ScanNext]_vars

\* A Redis in which every user has logged 1 for the first exercise before, at second 1
Logged(u) ==
    [kind |-> "record", user |-> u, exercise_id |-> EXERCISES[1].id, amount |-> 1,
     old_total |-> 0, new_total |-> 1]

BusyInit ==
    /\ aliasIdx = SeedAliases(EmptyHash)
    /\ exDetails = SeedDetails(NoDetails)
    /\ playerRows = [u \in Users |-> IncrementScore(EmptyHash, EXERCISES[1].id, 1, 0)]
    /\ playersSet = {IntToStr(u) : u \in Users}
    /\ userInfo = [u \in Users |->
                      InfoHSet(EmptyHash, first_name(u),
                               CHOOSE un \in Regulars.usernames[u] : TRUE, <<1>>)]
    /\ now = 1
    /\ proc = [p \in Procs |-> [Idle EXCEPT !.pc = "boot"]]
    /\ log = [u \in Users |-> Logged(u)]
    /\ notices = {}
    /\ calls = 0
    /\ accepted = [u \in Users |-> [e \in StoredExIds |-> IF e = EXERCISES[1].id THEN 1 ELSE 0]]
    /\ seeded = <<>>
    /\ returns = <<>>
    /\ Connected

Record(p, W) ==
    \/ StartRecord(p, W) \/ RecAlias(p) \/ RecDetails(p) \/ RecRead(p, W)
    \/ RecHDel(p) \/ RecHSet(p) \/ RecSAdd(p) \/ RecIncr(p) \/ RecNotify(p)

Reset(p, W) ==
    \/ StartReset(p, W) \/ RstAlias(p) \/ RstDetails(p, W)
    \/ RstHDel(p) \/ RstHSet(p) \/ RstZero(p) \/ RstSAdd(p)

\* on that Redis, one bot instance records and resets while a second one draws the
\* group chart
BusyNext ==
    \/ SeedCheck(1) \/ Record(1, Regulars) \/ Reset(1, Regulars)
    \/ SeedCheck(2) \/ View(2)

SpecBusy == BusyInit /\ [][BusyNext]_vars

\* one bot instance and what it makes of careless input
ParseNext == Step(1, Careless) \/ RecUnmatched(1) \/ Turned(1)

SpecParse == Init /\ [][ParseNext]_vars

\* one bot instance whose Redis commands may fail
FaultyNext == Step(1, Changing) \/ Faults(1)

SpecFaulty == Init /\ [][FaultyNext]_vars

\* A running bot instance asked for charts on whatever Redis holds by then: the catalog
\* keys there or gone (removed by hand, or the database flushed since the instance
\* seeded them), any players registered, with or without a score row
AnyStoreInit ==
    /\ aliasIdx \in {EmptyHash, SeedAliases(EmptyHash)}
    /\ exDetails \in {NoDetails, SeedDetails(NoDetails)}
    /\ playerRows \in [Users -> {EmptyHash, IncrementScore(EmptyHash, EXERCISES[1].id, 1, 0)}]
    /\ playersSet \in SUBSET {IntToStr(u) : u \in Users}
    /\ userInfo = [u \in Users |->
                      IF IntToStr(u) \in playersSet
                      THEN InfoHSet(EmptyHash, first_name(u),
                                    CHOOSE un \in Regulars.usernames[u] : TRUE, <<1>>)
                      ELSE EmptyHash]
    /\ now = 1
    /\ proc = [p \in Procs |-> Idle]
    /\ log = <<>>
    /\ notices = {}
    /\ calls = 0
    /\ accepted = [u \in Users |-> [e \in StoredExIds |-> 0]]
    /\ seeded = <<>>
    /\ returns = <<>>
    /\ Connected

ChartsNext == My(1, Regulars) \/ View(1)

SpecCharts == AnyStoreInit /\ [][ChartsNext]_vars

\* instances that imported redis_client with or without a Redis to connect to, and
\* call it once the server is out of reach
DownInit ==
    /\ aliasIdx = EmptyHash
    /\ exDetails = NoDetails
    /\ InitRest
    /\ redis_conn \in [Procs -> {"Redis", None}]

DownNext ==
    \E p \in Procs :
       \/ SeedSkip(p) \/ SeedCheck(p) \/ SeedExec(p)
       \/ record_player_progress_unreached(p)
       \/ get_player_progress_unreached(p)
       \/ get_all_players_progress_unreached(p)
       \/ get_all_exercise_details_unreached(p)

SpecDown == DownInit /\ [][DownNext]_vars

(***************************************************************************)
(* setup_initial_data on the stores an earlier deployment can have left:   *)
(* Redis seeded from an earlier config.EXERCISES, with some of today's     *)
(* exercises, perhaps one since removed, and other goals.                  *)
(***************************************************************************)
\* setup_initial_data calls in one behaviour
MaxSeeds == 2

EarlierGoals(e) ==
    {IntToStr(0), IntToStr(1)} \cup
    {IntToStr(EXERCISES[i].goal) : i \in {j \in 1..Len(EXERCISES) : EXERCISES[j].id = e}}

EarlierName(e) ==
    IF e = LegacyExId THEN "Sit-Ups"
    ELSE EXERCISES[CHOOSE i \in 1..Len(EXERCISES) : EXERCISES[i].id = e].name

EarlierAlias(e) ==
    IF e = LegacyExId THEN LegacyAlias
    ELSE EXERCISES[CHOOSE i \in 1..Len(EXERCISES) : EXERCISES[i].id = e].alias

SeedInit ==
    /\ \E had \in SUBSET StoredExIds :
         \E goals \in [had -> UNION {EarlierGoals(e) : e \in StoredExIds}] :
            /\ \A e \in had : goals[e] \in EarlierGoals(e)
            /\ aliasIdx = [a \in {EarlierAlias(e) : e \in had} |->
                              CHOOSE e \in had : EarlierAlias(e) = a]
            /\ exDetails = [e \in StoredExIds |->
                              IF e \in had THEN [name |-> EarlierName(e), goal |-> goals[e]]
                              ELSE EmptyHash]
    /\ InitRest
    /\ Connected

\* one caller runs setup_initial_data to its end
SetupCall ==
    /\ Len(seeded) < MaxSeeds
    /\ LET after == setup_initial_data(aliasIdx, exDetails)
       IN  /\ aliasIdx' = after[1]
           /\ exDetails' = after[2]
           /\ seeded' = Append(seeded, [before |-> <<aliasIdx, exDetails>>, after |-> after])
    /\ UNCHANGED <<playerRows, playersSet, userInfo, now, proc, log, notices, calls, accepted,
                   client>>

SpecSeed == SeedInit /\ [][SetupCall]_vars

(***************************************************************************)
(* Properties.                                                             *)
(***************************************************************************)
\* getScore: the stored total of a player for an exercise, 0 when there is no entry
Score(u, e) == DictGet(get_player_progress(playerRows[u]), e, 0)

\* the goal of an exercise as its detail record states it: 0 when the record has no
\* goal or one that is not a number
GoalOf(e) ==
    IF "goal" \in DOMAIN exDetails[e] /\ IsIntStr(exDetails[e]["goal"])
    THEN DigitsToInt(exDetails[e]["goal"])
    ELSE 0

\* the writes of the log that are about player u and exercise e
About(i, u, e) == log[i].user = u /\ log[i].exercise_id = e

IsRecord(i) == log[i].kind = "record"

IsReset(i) == log[i].kind = "reset"

\* the sum of the amounts recorded for (u, e) among the first n writes, counted from
\* the last reset among them
RECURSIVE SumSinceReset(_, _, _)
SumSinceReset(n, u, e) ==
    IF n = 0 THEN 0
    ELSE IF ~About(n, u, e) THEN SumSinceReset(n - 1, u, e)
    ELSE IF IsReset(n) THEN 0
    ELSE log[n].amount + SumSinceReset(n - 1, u, e)

\* the total of its pair just before the i-th write
Before(i) == SumSinceReset(i - 1, log[i].user, log[i].exercise_id)

\* the goal message of the i-th write was sent
Notified(i) == \E n \in notices : n.entry = i

\* the call that made the i-th write has returned
Returned(i) == \A p \in Procs : ~(proc[p].pc = "rec_notify" /\ proc[p].entry = i)

\* no reset of the pair of write i lies between writes i and j
SameRun(i, j) ==
    /\ i < j
    /\ About(j, log[i].user, log[i].exercise_id)
    /\ \A k \in (i + 1)..(j - 1) : ~(IsReset(k) /\ About(k, log[i].user, log[i].exercise_id))

\* C1: with one bot instance (no interleaving), the stored total of every player and
\* exercise is the sum of the amounts recorded since the pair's last reset, or of all
\* of them when it was never reset; a pair with no entry has total 0.
C1_TotalIsSumSinceReset ==
    \A u \in Users, e \in StoredExIds : Score(u, e) = SumSinceReset(Len(log), u, e)

\* a pair was added to, reset, and added to again, and another pair holds a total
C1_Witness ==
    /\ Len(log) = 3
    /\ IsRecord(1) /\ IsReset(2) /\ IsRecord(3)
    /\ About(2, log[1].user, log[1].exercise_id)
    /\ ~About(3, log[1].user, log[1].exercise_id)
    /\ Score(log[3].user, log[3].exercise_id) > 0

\* C2: for every record call that has returned, the goal message was sent exactly
\* when the exercise has a goal above 0 and the total the call read was below the goal
\* and the total the increment returned is at or above it; with a goal of 0, or none,
\* no message is ever sent.
C2_GoalCrossedIff ==
    /\ \A i \in DOMAIN log :
          IsRecord(i) /\ Returned(i) =>
             (Notified(i) <=>
                /\ GoalOf(log[i].exercise_id) > 0
                /\ log[i].old_total < GoalOf(log[i].exercise_id)
                /\ GoalOf(log[i].exercise_id) <= log[i].new_total)
    /\ \A n \in notices :
          /\ n.entry \in DOMAIN log
          /\ IsRecord(n.entry)
          /\ GoalOf(log[n.entry].exercise_id) > 0
          /\ n.goal = GoalOf(log[n.entry].exercise_id)

\* a call landed exactly on the goal and was notified, and one stayed below and was not
C2_Witness ==
    \E i, j \in DOMAIN log :
       /\ IsRecord(i) /\ Notified(i) /\ log[i].new_total = GoalOf(log[i].exercise_id)
       /\ IsRecord(j) /\ Returned(j) /\ ~Notified(j)
       /\ log[j].new_total < GoalOf(log[j].exercise_id)

\* C3: with one bot instance, between two resets of a pair whose exercise has a goal
\* above 0, the goal message is sent for exactly the call that takes the total from
\* below the goal to at or above it, so for at most one call, and for no later call.
C3_OneCrossingPerRun ==
    /\ \A i \in DOMAIN log :
          IsRecord(i) /\ Returned(i) /\ GoalOf(log[i].exercise_id) > 0 =>
             (Notified(i) <=>
                /\ Before(i) < GoalOf(log[i].exercise_id)
                /\ GoalOf(log[i].exercise_id) <= Before(i) + log[i].amount)
    /\ \A i, j \in DOMAIN log :
          SameRun(i, j) /\ Notified(i) /\ IsRecord(j) /\ Returned(j) => ~Notified(j)

\* a call crossed the goal and was notified; a later call of the same run was not
C3_Witness ==
    \E i, j \in DOMAIN log :
       /\ SameRun(i, j) /\ IsRecord(i) /\ IsRecord(j)
       /\ Notified(i) /\ Returned(j) /\ ~Notified(j)

\* C4: two calls of one run are both notified only when the later one read its total
\* before the earlier one's increment (its snapshot is not the total it added to);
\* and that does happen: see the witness.
C4_DuplicateOnlyWhenStale ==
    \A i, j \in DOMAIN log :
       SameRun(i, j) /\ IsRecord(i) /\ IsRecord(j) /\ Notified(i) /\ Notified(j) =>
          log[j].old_total < log[j].new_total - log[j].amount

\* two calls on one pair, never reset, both read a total below the goal before either
\* added to it, and both were notified
C4_Witness ==
    \E i, j \in DOMAIN log :
       /\ SameRun(i, j) /\ IsRecord(i) /\ IsRecord(j)
       /\ \A k \in DOMAIN log : ~(IsReset(k) /\ About(k, log[i].user, log[i].exercise_id))
       /\ log[i].old_total < GoalOf(log[i].exercise_id)
       /\ log[j].old_total < GoalOf(log[i].exercise_id)
       /\ log[i].old_total <= log[i].new_total - log[i].amount
       /\ log[j].old_total <= log[i].new_total - log[i].amount
       /\ Notified(i) /\ Notified(j)

\* C5: whatever the interleaving, once every call has returned the total of a pair
\* that was never reset is the sum of the amounts of all the record calls made for it
\* (the store starts with no entry: 0).
C5_NoLostIncrement ==
    AllIdle =>
       \A u \in Users, e \in StoredExIds :
          (\A k \in DOMAIN log : ~(IsReset(k) /\ About(k, u, e))) =>
             Score(u, e) = accepted[u][e]

\* two calls on one pair overlapped (the later one's snapshot is stale) and returned
C5_Witness ==
    /\ AllIdle
    /\ \E i, j \in DOMAIN log :
          /\ SameRun(i, j) /\ IsRecord(i) /\ IsRecord(j)
          /\ \A k \in DOMAIN log : ~(IsReset(k) /\ About(k, log[i].user, log[i].exercise_id))
          /\ log[j].old_total < log[j].new_total - log[j].amount

\* C6: with one bot instance, from the reset's write until the next write the total
\* of the pair reset is 0, whatever it was before
C6_ResetLeavesZero ==
    Len(log) > 0 /\ IsReset(Len(log)) =>
       Score(log[Len(log)].user, log[Len(log)].exercise_id) = 0

\* a reset of a pair with no entry yet, then a record, then a reset of a positive total
C6_Witness ==
    /\ AllIdle
    /\ Len(log) = 3
    /\ IsReset(1) /\ IsRecord(2) /\ IsReset(3)
    /\ About(2, log[1].user, log[1].exercise_id)
    /\ About(3, log[1].user, log[1].exercise_id)

\* the step is the HSET 0 of a reset of (u, e)
ResetStepOf(u, e) ==
    \E p \in Procs :
       /\ proc[p].pc = "rst_zero" /\ proc'[p].pc = "rst_sadd"
       /\ proc[p].user = u /\ proc[p].exercise_id = e

StoredTotalsAreNaturals ==
    \A u \in Users : \A e \in DOMAIN playerRows[u] :
       IsIntStr(playerRows[u][e]) /\ Score(u, e) >= 0

\* C7: every stored total is a non-negative integer, and no step lowers a total
\* except the write of a reset of that pair, which leaves it 0.
C7_MonotoneExceptReset ==
    /\ []StoredTotalsAreNaturals
    /\ [][\A u \in Users, e \in StoredExIds :
             Score(u, e)' < Score(u, e) => ResetStepOf(u, e) /\ Score(u, e)' = 0]_vars

\* a reset has just lowered a positive total
C7_Witness ==
    \E p \in Procs :
       /\ proc[p].pc = "rst_sadd"
       /\ Score(proc[p].user, proc[p].exercise_id) = 0
       /\ Len(log) >= 2 /\ IsReset(Len(log)) /\ Before(Len(log)) > 0

\* listExerciseDetails: the exercises the alias index names that have a detail record
ListedExercises ==
    {aliasIdx[a] : a \in {b \in DOMAIN aliasIdx : Exists(exDetails[aliasIdx[b]])}}

\* C8: with one bot instance, the chart about to be sent has one label per player id
\* read from the registry, and for every such player and every listed exercise a cell
\* holding the stored total of the pair, 0 when the store has no entry for it.
C8_MatrixDense ==
    \A p \in Procs :
       proc[p].pc = "all_send" =>
          LET chart == proc[p].chart[1]
              player_ids == PlayerIds(proc[p].ids)
          IN  /\ {player_ids[j] : j \in DOMAIN player_ids} =
                     {DigitsToInt(m) : m \in playersSet}
              /\ Len(chart.player_labels) = Len(player_ids)
              /\ {chart.exercise_ids[i] : i \in DOMAIN chart.exercise_ids} = ListedExercises
              /\ DOMAIN chart.scores = DOMAIN chart.exercise_ids
              /\ \A i \in DOMAIN chart.exercise_ids :
                    /\ DOMAIN chart.scores[i] = DOMAIN player_ids
                    /\ \A j \in DOMAIN player_ids :
                          chart.scores[i][j] = Score(player_ids[j], chart.exercise_ids[i])

\* a chart of two players and two exercises with a cell for a pair the store has no
\* entry for, and a cell above 0
C8_Witness ==
    \E p \in Procs :
       /\ proc[p].pc = "all_send"
       /\ Len(proc[p].ids) = 2
       /\ Len(proc[p].chart[1].exercise_ids) = 2
       /\ \E i, j \in 1..2 :
             /\ proc[p].chart[1].exercise_ids[i] \notin DOMAIN playerRows[PlayerIds(proc[p].ids)[j]]
             /\ proc[p].chart[1].scores[i][j] = 0
       /\ \E i, j \in 1..2 : proc[p].chart[1].scores[i][j] > 0

\* C9: a second setup_initial_data call in a row leaves the alias index and the
\* detail records as the first call left them.
C9_SeedIdempotent ==
    \A k \in 2..Len(seeded) : seeded[k].after = seeded[k - 1].after

\* the first call wrote the catalog, and a second call followed
C9_Witness ==
    /\ Len(seeded) >= 2
    /\ seeded[1].before # seeded[1].after

\* the alias index and every catalog exercise's detail record exist
AllPresent(catalog) ==
    /\ Exists(catalog[1])
    /\ \A e \in ExIds : Exists(catalog[2][e])

\* C10: a setup_initial_data call that finds the alias index or the detail record of a
\* catalog exercise missing leaves all of them present, and one that finds all of
\* them present changes nothing.
C10_SeedsWhateverIsAbsent ==
    \A k \in DOMAIN seeded :
       /\ ~AllPresent(seeded[k].before) => AllPresent(seeded[k].after)
       /\ AllPresent(seeded[k].before) => seeded[k].after = seeded[k].before

\* an instance is between the EXISTS and the pipeline of setup_initial_data, or before
Seeding(p) == proc[p].pc \in {"boot", "seed_exec"}

\* C11: started on an unseeded store, two setup_initial_data calls that interleave in
\* any way leave the alias index and the detail records as a single call leaves them;
\* and once the alias index is written, no step leaves it deleted or incomplete.
C11_ConcurrentSeedAsOne ==
    /\ (\A p \in Procs : ~Seeding(p)) =>
          <<aliasIdx, exDetails>> = setup_initial_data(EmptyHash, NoDetails)
    /\ aliasIdx \in {EmptyHash, AliasMapping}
    /\ (\E p \in Procs : ~Seeding(p)) => aliasIdx = AliasMapping

\* both instances found the store unseeded; one has written the catalog and the other
\* is about to write it again
C11_Witness ==
    /\ proc[1].pc = "seed_exec"
    /\ proc[2].pc # "boot"
    /\ ~Seeding(2)
    /\ aliasIdx = AliasMapping

\* C12: when the hard reset of an authorized caller ends, the store holds no player
\* score row, no player info record and no registered player id, and the alias index
\* and the detail records are those seeded from the catalog.
C12_HardResetClears ==
    [][\A p \in Procs :
          proc[p].pc = "hr_setup" /\ proc'[p].pc # "hr_setup" =>
             /\ playerRows' = NoRows
             /\ userInfo' = [u \in Users |-> EmptyHash]
             /\ playersSet' = {}
             /\ <<aliasIdx', exDetails'>> = setup_initial_data(EmptyHash, NoDetails)]_vars

\* C13: every call of record_player_progress, get_player_progress,
\* get_all_players_progress or get_all_exercise_details made while Redis cannot be
\* reached ends in an exception for its caller, never in a returned value.
C13_UnavailableIsAnError ==
    \A i \in DOMAIN returns : returns[i].raised

\* the info record of p's user holds what p's call had to store
InfoUpdated(p) ==
    LET info == userInfo[proc[p].user]
    IN  /\ HGet(info, "first_name") = <<first_name(proc[p].user)>>
        /\ HGet(info, "username") =
              (IF proc[p].username # None THEN <<proc[p].username>> ELSE <<>>)
        /\ HGet(info, "last_update") = <<IntToStr(proc[p].ts)>>

\* C14: with one bot instance, when a record call has failed at its HINCRBY the
\* player's info record holds the name fields and the time of this call and the total
\* of the pair is the one the call found; and wherever calls fail, every total is the
\* sum of the amounts of the calls that did not fail (a call changes it by 0 or by its
\* full amount).
C14_FailedIncrementLeavesTotal ==
    /\ \A p \in Procs :
          proc[p].pc = "rec_error" /\ proc[p].failed_at = "rec_incr" =>
             /\ InfoUpdated(p)
             /\ Score(proc[p].user, proc[p].exercise_id) = proc[p].old_total
             /\ Score(proc[p].user, proc[p].exercise_id) =
                   SumSinceReset(Len(log), proc[p].user, proc[p].exercise_id)
    /\ \A u \in Users, e \in StoredExIds : Score(u, e) = SumSinceReset(Len(log), u, e)

\* a later call of a user who has no username found a total above 0 and failed at its
\* HINCRBY, after its HDEL, HSET and SADD
C14_Witness ==
    \E p \in Procs :
       /\ proc[p].pc = "rec_error" /\ proc[p].failed_at = "rec_incr"
       /\ proc[p].old_total > 0
       /\ proc[p].username = None
       /\ proc[p].ts > 1
       /\ Len(log) = 1 /\ IsRecord(1)

\* where a record handler is once the number was accepted
Recording == BeforeTry \cup InsideTry \cup {"rec_notify"}

\* where a record handler is when the message was not a log command or its number
\* was refused
Rejecting == {"rec_unmatched", "rec_refuse"}

\* C15: a log message whose number is 0 or negative never gets past the parsing: the
\* handler goes on to Redis only with a number above 0, every score write and goal
\* message is for a number above 0, and from the arrival of a rejected message to the
\* end of its handling nothing in Redis changes and no goal message is sent.
C15_NonPositiveRejected ==
    /\ [](/\ \A p \in Procs :
               /\ proc[p].pc \in Recording => proc[p].reps > 0
               /\ proc[p].pc \in Rejecting => proc[p].reps <= 0
          /\ \A i \in DOMAIN log : IsRecord(i) => log[i].amount > 0)
    /\ [][\A p \in Procs :
             (proc[p].pc \in Rejecting \/ proc'[p].pc \in Rejecting) =>
                /\ UNCHANGED <<store, log, notices>>
                /\ proc'[p].pc \in Rejecting \cup {"idle"}]_vars

\* a 0 was refused after a number above 0 had been recorded for the same user
C15_Witness ==
    \E p \in Procs :
       /\ proc[p].pc = "rec_refuse"
       /\ proc[p].reps = 0
       /\ Len(log) = 1 /\ IsRecord(1) /\ log[1].user = proc[p].user
       /\ Score(proc[p].user, log[1].exercise_id) = log[1].amount

\* two aliases that differ at most in the case of their letters
SameIgnoringCase(a, b) == Lower(a) = Lower(b)

\* the alias p's user typed is, case apart, one the alias index has
KnownAlias(p) == \E a \in DOMAIN aliasIdx : SameIgnoringCase(a, proc[p].typed)

\* C16: the alias lookup of a record or reset request finds the exercise of the index
\* alias that equals the typed one case apart, and otherwise finds nothing and the
\* request ends (a reset with a reply) with every key of Redis, the score writes and
\* the goal messages as they were when the request arrived.
C16_UnknownAliasTouchesNothing ==
    /\ [](\A p \in Procs : proc[p].pc = "rst_unknown" => ~KnownAlias(p))
    /\ [][\A p \in Procs :
             /\ (proc[p].pc \in {"rec_alias", "rst_alias"} /\ proc'[p].pc # proc[p].pc) =>
                   IF KnownAlias(p)
                   THEN /\ proc'[p].pc \in {"rec_details", "rst_details"}
                        /\ \E a \in DOMAIN aliasIdx :
                              /\ SameIgnoringCase(a, proc[p].typed)
                              /\ proc'[p].exercise_id = aliasIdx[a]
                   ELSE /\ proc'[p].pc \in {"idle", "rst_unknown"}
                        /\ UNCHANGED <<store, log, notices>>
             /\ (proc[p].pc = "rst_unknown" \/ proc'[p].pc \in {"rec_alias", "rst_alias"}) =>
                   /\ UNCHANGED <<store, log, notices>>
                   /\ proc[p].pc = "rst_unknown" => proc'[p].pc = "idle"]_vars

\* a reset typed with an unknown alias in capitals is being answered, after a number
\* was recorded
C16_Witness ==
    \E p \in Procs :
       /\ proc[p].pc = "rst_unknown"
       /\ proc[p].typed = "XYZ"
       /\ Len(log) = 1 /\ IsRecord(1)
       /\ IntToStr(log[1].user) \in playersSet

\* get_all_players_progress has returned to p's all_progress
ScanDone(p) == proc[p].pc \in {"all_aliases", "all_details", "all_label", "all_send"}

\* the ids p's SMEMBERS returned
IdsRead(p) == {proc[p].ids[i] : i \in DOMAIN proc[p].ids}

\* C17: the mapping get_all_players_progress returns has exactly one key for each id
\* SMEMBERS gave it, which are the members of the registry at that instant, each once,
\* and no other key; every key holds the row of its player as HGETALL found it, the
\* empty mapping when the player has no row.
C17_OneKeyPerMember ==
    /\ [](\A p \in Procs :
             ScanDone(p) =>
                /\ DOMAIN proc[p].all_player_data = {StrToInt(m) : m \in IdsRead(p)}
                /\ Cardinality(IdsRead(p)) = Len(proc[p].ids)
                /\ IdsRead(p) \subseteq playersSet)
    /\ [][\A p \in Procs :
             /\ (proc[p].pc = "all_smembers" /\ proc'[p].pc # "all_smembers") =>
                   {proc'[p].ids[i] : i \in DOMAIN proc'[p].ids} = playersSet
             /\ (proc[p].pc = "all_row" /\ proc'[p].i = proc[p].i + 1) =>
                   LET user_id == StrToInt(proc[p].ids[proc'[p].i])
                   IN  /\ user_id \in DOMAIN proc'[p].all_player_data
                       /\ proc'[p].all_player_data[user_id] =
                             get_player_progress(playerRows[user_id])]_vars

\* a scan has returned a mapping with a player who has scores and a registered
\* player who has no row, under an empty mapping
C17_Witness ==
    \E p \in Procs :
       /\ ScanDone(p)
       /\ \E u, v \in DOMAIN proc[p].all_player_data :
             /\ DOMAIN proc[p].all_player_data[u] = {}
             /\ DOMAIN proc[p].all_player_data[v] # {}

\* the summary p built lists every exercise of get_all_exercise_details once, by name,
\* each with the stored total of p's user (0 without an entry) and the goal of its record
SummaryIsLeftJoin(p) ==
    LET summary == proc[p].summary[1]
        n == Len(summary.exercise_ids)
    IN  /\ {summary.exercise_ids[i] : i \in 1..n} = ListedExercises
        /\ Cardinality(ListedExercises) = n
        /\ Len(summary.labels) = n /\ Len(summary.values) = n /\ Len(summary.goals) = n
        /\ \A i \in 1..n :
              /\ summary.labels[i] = exDetails[summary.exercise_ids[i]]["name"]
              /\ summary.values[i] = Score(proc[p].user, summary.exercise_ids[i])
              /\ summary.goals[i] =
                    (IF "goal" \in DOMAIN exDetails[summary.exercise_ids[i]]
                     THEN <<GoalOf(summary.exercise_ids[i])>> ELSE <<>>)
        /\ \A i, j \in 1..n :
              i < j => NameRank(summary.labels[i]) <= NameRank(summary.labels[j])

\* my_progress has read the row and the catalog and decided what to send
Answering(p) == proc[p].pc \in {"my_empty", "my_send"}

\* C18 as claimed: with one bot instance, whoever asks for their summary, even
\* having logged nothing at all, gets one item per listed exercise, by name, with
\* their stored total, 0 where they never logged.
C18_SummaryForEveryPlayer ==
    \A p \in Procs : Answering(p) => proc[p].summary # <<>> /\ SummaryIsLeftJoin(p)

\* C18 as amended: a player who has a score row gets that summary; a player with no
\* score row gets none, but the notice that nothing was logged yet.
C18_SummaryForPlayersWithARow ==
    \A p \in Procs :
       /\ proc[p].pc = "my_send" =>
             /\ DOMAIN playerRows[proc[p].user] # {}
             /\ proc[p].summary # <<>>
             /\ SummaryIsLeftJoin(p)
       /\ proc[p].pc = "my_empty" =>
             /\ DOMAIN playerRows[proc[p].user] = {}
             /\ proc[p].summary = <<>>

\* a summary of two exercises, one with a total above 0 and one never logged
C18_Witness ==
    \E p \in Procs :
       /\ proc[p].pc = "my_send"
       /\ Len(proc[p].summary[1].values) = 2
       /\ \E i, j \in 1..2 :
             /\ proc[p].summary[1].values[i] > 0
             /\ proc[p].summary[1].values[j] = 0
             /\ proc[p].summary[1].exercise_ids[j] \notin DOMAIN playerRows[proc[p].user]

\* the reset that made the i-th write has not issued its SADD yet
Registering(i) ==
    /\ IsReset(i)
    /\ \E p \in Procs :
          /\ proc[p].pc = "rst_sadd"
          /\ proc[p].user = log[i].user
          /\ proc[p].exercise_id = log[i].exercise_id

\* the step is the SADD of a record or of a reset by p
SAddStep(p) == proc[p].pc \in {"rec_sadd", "rst_sadd"} /\ proc'[p].pc # proc[p].pc

\* C19: the player of every record or reset that has gone through is in the
\* registry; a SADD of an id that is already there leaves the registry as it is; and
\* no step of a record, a reset, a group chart or a setup takes an id out of it.
C19_RegistryOnlyGrows ==
    /\ [](\A i \in DOMAIN log : ~Registering(i) => IntToStr(log[i].user) \in playersSet)
    /\ [][/\ playersSet \subseteq playersSet'
          /\ \A p \in Procs :
                SAddStep(p) =>
                   /\ IntToStr(proc[p].user) \in playersSet'
                   /\ IntToStr(proc[p].user) \in playersSet => playersSet' = playersSet
                   /\ playersSet' \subseteq playersSet \cup {IntToStr(proc[p].user)}]_vars

\* two players are registered and the reset of one of them, registered by an earlier
\* call, is at its SADD
C19_Witness ==
    /\ Cardinality(playersSet) = 2
    /\ Len(log) = 3
    /\ log[1].user = log[3].user
    /\ log[2].user # log[3].user
    /\ \E p \in Procs :
          /\ proc[p].pc = "rst_sadd"
          /\ proc[p].user = log[3].user
          /\ IntToStr(proc[p].user) \in playersSet

\* the row of player u as Redis held it after the first n score writes
RowAt(n, u) ==
    [e \in {log[k].exercise_id : k \in {j \in 1..n : log[j].user = u}} |->
        SumSinceReset(n, u, e)]

\* the mapping p's scan returned is the rows Redis held at one instant
IsSnapshot(p) ==
    \E n \in 0..Len(log) :
       \A u \in DOMAIN proc[p].all_player_data : proc[p].all_player_data[u] = RowAt(n, u)

\* C20: a scan by get_all_players_progress, with record and reset calls landing among
\* its reads, returns for every player a row that the player did have at some instant,
\* but the rows together need not be those of one instant: see the witness.
C20_RowsAreReadOneByOne ==
    \A p \in Procs :
       ScanDone(p) =>
          \A u \in DOMAIN proc[p].all_player_data :
             \E n \in 0..Len(log) : proc[p].all_player_data[u] = RowAt(n, u)

\* a scan returned the row one player had before a record call and the row another
\* player had after a later record call: rows that Redis never held together
C20_Witness ==
    \E p \in Procs :
       /\ ScanDone(p)
       /\ ~IsSnapshot(p)
       /\ \E u, v \in DOMAIN proc[p].all_player_data :
             \E i, j \in DOMAIN log :
                /\ u # v /\ i < j
                /\ IsRecord(i) /\ log[i].user = u
                /\ IsRecord(j) /\ log[j].user = v
                /\ proc[p].all_player_data[u] = RowAt(i - 1, u)
                /\ proc[p].all_player_data[v] = RowAt(j, v)

\* where a record or reset call is once store_user_info has returned
InfoStored == {"rec_sadd", "rec_incr", "rec_notify", "rst_zero", "rst_sadd"}

\* C21: with one bot instance, from the moment store_user_info has returned until the
\* record or reset call is answered, the player's info record holds the first name
\* the call carried, the username it carried (none when it carried none) and, as
\* last_update, the time the call read; so every call that succeeds has set them,
\* whether or not it changes the score.
C21_EveryCallStoresInfoAndTime ==
    \A p \in Procs : proc[p].pc \in InfoStored => InfoUpdated(p)

\* a reset of a score that an earlier reset had left at 0 is about to be answered: it
\* was made at second 2 by a user without a username, and the info record says so
C21_Witness ==
    \E p \in Procs :
       /\ proc[p].pc = "rst_sadd"
       /\ proc[p].ts = 2 /\ proc[p].username = None
       /\ Len(log) = 2 /\ IsReset(1) /\ IsReset(2)
       /\ About(1, proc[p].user, proc[p].exercise_id)
       /\ About(2, proc[p].user, proc[p].exercise_id)
       /\ LastUpdate(userInfo[proc[p].user]) = <<2>>

\* where a reset handler is between its first command and its answer
Resetting == {"rst_alias", "rst_unknown", "rst_details", "rst_hdel", "rst_hset", "rst_zero", "rst_sadd"}

\* write i is a record call on a pair that an earlier reset found at or above the goal
AfterResetAtGoal(i) ==
    /\ IsRecord(i)
    /\ \E k \in 1..(i - 1) :
          /\ IsReset(k) /\ About(k, log[i].user, log[i].exercise_id)
          /\ GoalOf(log[i].exercise_id) > 0
          /\ Before(k) >= GoalOf(log[i].exercise_id)

\* C22: with one bot instance, no step of the reset handler sends a goal message and
\* every goal message belongs to a record call; and a record call that, after a reset
\* of a pair at or above its goal, takes the total from below the goal to at or above
\* it is sent the goal message again.
C22_ResetSilentAndGoalNotTerminal ==
    /\ [](\A n \in notices : n.entry \in DOMAIN log /\ IsRecord(n.entry))
    /\ [](\A i \in DOMAIN log :
            /\ AfterResetAtGoal(i) /\ Returned(i)
            /\ Before(i) < GoalOf(log[i].exercise_id)
            /\ GoalOf(log[i].exercise_id) <= Before(i) + log[i].amount
            => Notified(i))
    /\ [][\A p \in Procs : proc[p].pc \in Resetting => notices' = notices]_vars

\* a pair reached its goal and the message was sent; it was reset, with no message;
\* the next record call reached the goal again and a second message was sent
C22_Witness ==
    /\ Len(log) = 3
    /\ IsRecord(1) /\ IsReset(2) /\ IsRecord(3)
    /\ About(2, log[1].user, log[1].exercise_id)
    /\ About(3, log[1].user, log[1].exercise_id)
    /\ Before(2) >= GoalOf(log[1].exercise_id)
    /\ AfterResetAtGoal(3)
    /\ Notified(1) /\ ~Notified(2) /\ Notified(3)
    /\ Cardinality(notices) = 2

\* get_all_exercise_details has nothing to return: the alias index is absent, or no
\* alias leads to a detail record
NoCatalog ==
    \/ DOMAIN aliasIdx = {}
    \/ \A a \in DOMAIN aliasIdx : DOMAIN get_exercise_details(exDetails[aliasIdx[a]]) = {}

\* where all_progress is once get_all_players_progress has returned
AfterScan == {"all_aliases", "all_details", "all_label", "all_send"}

\* the three sequences of a summary are empty
NoSummary(summary) ==
    summary.labels = <<>> /\ summary.values = <<>> /\ summary.goals = <<>>

\* C23: on a store without a catalog, my_progress builds empty label, value and goal
\* sequences and all_progress an empty exercise mapping, both chart generators return
\* the empty buffer, and the handlers answer that there is no chart; on a store with
\* no registered player, all_progress holds an empty mapping, for which the generator
\* returns the empty buffer too, and answers that nothing is logged. Every such
\* handler ends with its answer and none sends a chart.
C23_EmptinessIsTolerated ==
    /\ [](\A p \in Procs :
            LET me == proc[p]
            IN  /\ NoCatalog /\ me.pc = "my_name" =>
                      NoSummary(PlayerSummary(me.user_progress, me.all_exercise_details))
                /\ NoCatalog /\ me.pc = "all_label" =>
                      /\ DOMAIN me.all_exercise_details = {}
                      /\ \A label \in {PlayerLabel(userInfo[u], u) : u \in Users} :
                            generate_all_progress_chart(
                                Append(me.player_labels, label), PlayerIds(me.ids),
                                me.all_player_data, me.all_exercise_details) = <<>>
                /\ playersSet = {} /\ me.pc \in AfterScan =>
                      /\ me.ids = <<>> /\ DOMAIN me.all_player_data = {}
                      /\ generate_all_progress_chart(
                             me.player_labels, PlayerIds(me.ids), me.all_player_data,
                             me.all_exercise_details) = <<>>
                /\ NoCatalog \/ playersSet = {} => me.pc # "all_send"
                /\ NoCatalog => me.pc # "my_send")
    /\ [][\A p \in Procs :
            /\ NoCatalog /\ proc[p].pc = "my_name" /\ proc'[p].pc # "my_name"
                  => proc'[p].pc = "idle"
            /\ NoCatalog /\ proc[p].pc = "all_label" /\ proc'[p].pc # "all_label"
                  => proc'[p].pc = "idle"
            /\ playersSet = {} /\ proc[p].pc \in {"all_aliases", "all_details"}
                  => proc'[p].pc \in {"all_aliases", "all_details", "idle"}]_vars

\* on a store that has two players with scores and no catalog, all_progress has read
\* both rows and the first label, and is about to call the chart generator
C23_Witness ==
    \E p \in Procs :
       /\ DOMAIN aliasIdx = {}
       /\ proc[p].pc = "all_label"
       /\ Len(proc[p].ids) = 2 /\ Len(proc[p].player_labels) = 1
       /\ \A u \in DOMAIN proc[p].all_player_data : DOMAIN proc[p].all_player_data[u] # {}

\* where my_progress and all_progress are while they run
Reading ==
    {"my_row", "my_aliases", "my_details", "my_empty", "my_name", "my_send",
     "all_smembers", "all_row", "all_aliases", "all_details", "all_label", "all_send"}

\* the step is one of my_progress or all_progress, run by instance p
ReadStep(p) ==
    /\ proc'[p] # proc[p]
    /\ proc[p].pc \in Reading \/ proc'[p].pc \in Reading

\* C24: whatever the store holds, no step of my_progress or all_progress, from the
\* first read to the answer, changes a score row, an info record, the registry, the
\* alias index or a detail record.
C24_ChartsOnlyRead ==
    [][\A p \in Procs :
          ReadStep(p) =>
             /\ playerRows' = playerRows
             /\ userInfo' = userInfo
             /\ playersSet' = playersSet
             /\ aliasIdx' = aliasIdx
             /\ exDetails' = exDetails]_vars

\* all_progress has read the registry, both score rows, the catalog and both info
\* records and is about to send its chart; the rows are still the ones it read
C24_Witness ==
    \E p \in Procs :
       /\ proc[p].pc = "all_send"
       /\ Cardinality(playersSet) = 2
       /\ Len(proc[p].player_labels) = 2
       /\ DOMAIN proc[p].all_exercise_details = ExIds
       /\ \A u \in Users :
             /\ DOMAIN playerRows[u] # {}
             /\ proc[p].all_player_data[u] = get_player_progress(playerRows[u])

\* where a call is when its next command is one of store_user_info
Upserting == {"rec_hdel", "rec_hset", "rst_hdel", "rst_hset"}

\* the name to show for user u once a call that carried username has stored its info
ShownFor(u, username) ==
    IF username # None THEN <<"@", username>> ELSE <<first_name(u)>>

\* C25: with one bot instance, the display name of a player with no info record is
\* "User <id>"; when store_user_info returns, the display name is "@" and the username
\* the call carried, or the first name when it carried none, whatever was stored
\* before; and no step other than those of store_user_info changes a display name.
C25_DisplayNameFollowsLastUpsert ==
    /\ [](\A u \in Users :
            DOMAIN userInfo[u] = {} =>
               DisplayName(userInfo[u], u) = <<"User ">> \o IntToStr(u))
    /\ [][/\ \A p \in Procs :
               proc[p].pc \in {"rec_hset", "rst_hset"} /\ proc'[p].pc # proc[p].pc
                  => DisplayName(userInfo'[proc[p].user], proc[p].user) =
                        ShownFor(proc[p].user, proc[p].username)
          /\ (\A p \in Procs : proc[p].pc \notin Upserting)
                  => \A u \in Users :
                        DisplayName(userInfo'[u], u) = DisplayName(userInfo[u], u)]_vars

\* a player was sent a goal message under their username; a later call of theirs
\* carried no username, and once it had stored the info the first name is shown
C25_Witness ==
    \E p \in Procs, n \in notices :
       /\ proc[p].pc \in {"rec_sadd", "rst_zero"}
       /\ proc[p].username = None
       /\ n.user = proc[p].user
       /\ n.name = <<"@", Handles[n.user]>>
       /\ DisplayName(userInfo[n.user], n.user) = <<first_name(n.user)>>

\* no reset of the pair of write i is among the writes up to i
NeverReset(i) ==
    \A k \in 1..i : ~(IsReset(k) /\ About(k, log[i].user, log[i].exercise_id))

\* the increment of write i took the stored total from below the goal to at or above it
CarriedAcross(i) ==
    /\ IsRecord(i)
    /\ GoalOf(log[i].exercise_id) > 0
    /\ log[i].new_total - log[i].amount < GoalOf(log[i].exercise_id)
    /\ GoalOf(log[i].exercise_id) <= log[i].new_total

\* C26: with several bot instances, on a pair that was never reset, the record call
\* whose increment took the stored total from below the goal to at or above it is
\* sent the goal message once it has returned, however the calls interleave: the
\* total it read before cannot be above the total it added to.
C26_CrossingCallIsNotified ==
    \A i \in DOMAIN log :
       CarriedAcross(i) /\ NeverReset(i) /\ Returned(i) =>
          /\ log[i].old_total <= log[i].new_total - log[i].amount
          /\ Notified(i)

\* two calls on one pair, never reset, both read the total before either added to
\* it; the later increment carried the total across the goal and was notified
C26_Witness ==
    \E i, j \in DOMAIN log :
       /\ SameRun(i, j) /\ IsRecord(i) /\ IsRecord(j)
       /\ NeverReset(j)
       /\ CarriedAcross(j) /\ ~CarriedAcross(i)
       /\ log[j].old_total < log[j].new_total - log[j].amount
       /\ Returned(i) /\ Returned(j)
       /\ ~Notified(i) /\ Notified(j)

\* C27: in every state, those in the middle of a record or reset call included, every
\* player who has a score row is a member of players:ids.
C27_RegistryCoversRows ==
    \A u \in Users : DOMAIN playerRows[u] # {} => IntToStr(u) \in playersSet

\* where a record or reset handler is between its first command and its answer
Writing ==
    {"rec_alias", "rec_details", "rec_read", "rec_hdel", "rec_hset", "rec_sadd", "rec_incr",
     "rec_notify"} \cup Resetting

\* the step is one of a record or reset call, run by instance p
WriteStep(p) == proc'[p] # proc[p] /\ proc[p].pc \in Writing

\* C28: with several bot instances, no step of a record or reset call of player P for
\* exercise E changes the total of another pair (another player, or another exercise
\* of P), the info record of another player, the alias index or a detail record.
C28_LedgerWriteFrame ==
    [][\A p \in Procs :
          WriteStep(p) =>
             /\ \A u \in Users, e \in StoredExIds :
                   u # proc[p].user \/ e # proc[p].exercise_id =>
                      DictGet(get_player_progress(playerRows'[u]), e, 0) = Score(u, e)
             /\ \A u \in Users : u # proc[p].user => userInfo'[u] = userInfo[u]
             /\ aliasIdx' = aliasIdx
             /\ exDetails' = exDetails]_vars

\* a player reset one exercise and still has the total of their other exercise, and
\* another player still has a total and an info record
C28_Witness ==
    /\ Len(log) = 3 /\ IsReset(3)
    /\ Score(log[3].user, log[3].exercise_id) = 0
    /\ \E e \in StoredExIds : e # log[3].exercise_id /\ Score(log[3].user, e) > 0
    /\ \E u \in Users, e \in StoredExIds :
          /\ u # log[3].user
          /\ Score(u, e) > 0
          /\ DOMAIN userInfo[u] # {}

====
